---- MODULE Spec2Model ----
(***************************************************************************)
(* Brand consistency checker (on_brand_crew).                              *)
(*                                                                         *)
(* Model of BrandCheckerTool._run (tools/brand_checker.py): the profile    *)
(* load, the four rule stages, the explanation selection, the stable sort  *)
(* and the returned dictionary.  Texts are sequences of one-character      *)
(* strings, so that lower-casing, whitespace collapsing, substring         *)
(* matching and tokenizing are computed as the code computes them.         *)
(* Ratios that the code holds as floats are held as pairs <<num, den>>     *)
(* and compared by cross-multiplication; for the list lengths validation   *)
(* admits (values <= 20, voiceDescriptors <= 10) the float comparisons     *)
(* against 0.3 and 0.5 and int(score * 15) agree with exact arithmetic.    *)
(***************************************************************************)
EXTENDS Integers, Sequences, FiniteSets, TLC

(***************************************************************************)
(* Bounds of the model                                                     *)
(***************************************************************************)
\* longest content string that is evaluated
MaxContentLen == 2

(***************************************************************************)
(* Characters                                                              *)
(***************************************************************************)
\* "^" stands for a lone surrogate code point (U+D800), which a Python str
\* can hold (json.loads of "\ud800", or sys.argv under surrogateescape).
Surrogate == "^"

\* characters of content strings: two letters, an upper-case letter,
\* whitespace, punctuation and the lone surrogate
Chars == {"a", "b", "A", " ", ".", Surrogate}

\* str.lower() on one character
Lower(c) == IF c = "A" THEN "a" ELSE c

\* the regular expression class \s
IsSpace(c) == c \in {" ", "\t", "\n", "\r"}

\* the separator class [\s.,!?;:'"()\[\]{}] of tokenize
IsSeparator(c) ==
    \/ IsSpace(c)
    \/ c \in {".", ",", "!", "?", ";", ":", "'", "\"", "(", ")", "[", "]", "{", "}"}

\* the regular expression class \d
IsDigit(c) == c \in {"0", "1", "2"}

(***************************************************************************)
(* Text primitives                                                         *)
(***************************************************************************)
\* all sequences over S of length at most n
SeqsUpTo(S, n) == UNION {[1..k -> S] : k \in 0..n}

LowerText(text) == [i \in 1..Len(text) |-> Lower(text[i])]

\* str.strip(): drop leading and trailing whitespace
RECURSIVE LStrip(_)
LStrip(text) ==
    IF text # <<>> /\ IsSpace(Head(text)) THEN LStrip(Tail(text)) ELSE text

RECURSIVE RStrip(_)
RStrip(text) ==
    IF text # <<>> /\ IsSpace(text[Len(text)])
    THEN RStrip(SubSeq(text, 1, Len(text) - 1))
    ELSE text

Strip(text) == RStrip(LStrip(text))

\* re.sub(r'\s+', ' ', text): every run of whitespace becomes one space
RECURSIVE CollapseSpaces(_)
CollapseSpaces(text) ==
    IF text = <<>> THEN <<>>
    ELSE IF IsSpace(Head(text))
         THEN <<" ">> \o CollapseSpaces(LStrip(text))
         ELSE <<Head(text)>> \o CollapseSpaces(Tail(text))

\* normalize_text: lower-case, strip, collapse whitespace
normalize_text(text) == CollapseSpaces(Strip(LowerText(text)))

\* Python's `needle in haystack` for strings
IsSubstring(needle, haystack) ==
    \E i \in 0..(Len(haystack) - Len(needle)) :
        SubSeq(haystack, i + 1, i + Len(needle)) = needle

\* contains_phrase: case-insensitive unanchored substring test
contains_phrase(content, phrase) ==
    IsSubstring(normalize_text(phrase), normalize_text(content))

\* tokenize: the set of maximal separator-free runs of the normalized text
tokenize(text) ==
    LET n == normalize_text(text)
    IN  {SubSeq(n, i, j) : <<i, j>> \in
            {p \in (1..Len(n)) \X (1..Len(n)) :
                /\ p[1] <= p[2]
                /\ \A k \in p[1]..p[2] : ~IsSeparator(n[k])
                /\ (p[1] = 1 \/ IsSeparator(n[p[1] - 1]))
                /\ (p[2] = Len(n) \/ IsSeparator(n[p[2] + 1]))}}

(***************************************************************************)
(* Ratios (Python floats that are quotients of small integers)             *)
(***************************************************************************)
Zero == <<0, 1>>

\* a > b, a < b for ratios with positive denominators
RatGT(a, b) == a[1] * b[2] > b[1] * a[2]
RatLT(a, b) == RatGT(b, a)

\* max(a, b) of Python: b only when b > a
RatMax(a, b) == IF RatGT(b, a) THEN b ELSE a

\* the thresholds 0.3 and 0.5
Threshold03 == <<3, 10>>
Threshold05 == <<1, 2>>

\* mutant: the common words as a share of the words of the first text
calculate_word_overlap_first(t1, t2) ==
    LET words1 == tokenize(t1)
        words2 == tokenize(t2)
    IN  IF words1 = {} \/ words2 = {} THEN Zero
        ELSE <<Cardinality(words1 \cap words2), Cardinality(words1)>>

\* calculate_word_overlap: Jaccard similarity of the two token sets
calculate_word_overlap(t1, t2) ==
    LET words1 == tokenize(t1)
        words2 == tokenize(t2)
        intersection == Cardinality(words1 \cap words2)
        union == Cardinality(words1 \cup words2)
    IN  IF words1 = {} \/ words2 = {} THEN Zero
        ELSE IF union > 0 THEN <<intersection, union>> ELSE Zero


(***************************************************************************)
(* Profile documents and their validation (models.py)                      *)
(***************************************************************************)
\* upper limits of the list fields of BrandProfile
MaxValues == 20
MaxVoiceDescriptors == 10

\* re.match(r"^\d+\.\d+\.\d+$", v) with the whole string consumed
FullSemver(v) ==
    \E i, j \in 1..Len(v) :
        /\ 1 < i /\ i + 1 < j /\ j < Len(v)
        /\ v[i] = "." /\ v[j] = "."
        /\ \A k \in (1..Len(v)) \ {i, j} : IsDigit(v[k])

\* BrandProfile.validate_version: `$` also matches before one trailing newline
validate_version(v) ==
    \/ FullSemver(v)
    \/ /\ Len(v) > 0 /\ v[Len(v)] = "\n"
       /\ FullSemver(SubSeq(v, 1, Len(v) - 1))

\* BrandExample field constraints
ValidExample(e) == Len(e.content) >= 1 /\ e.type \in {"good", "bad"}

\* BrandProfile.model_validate succeeds on the decoded document
model_validate_ok(data) ==
    /\ Len(data.name) >= 1
    /\ validate_version(data.version)
    /\ Len(data.values) >= 1 /\ Len(data.values) <= MaxValues
    /\ Len(data.voiceDescriptors) >= 1
    /\ Len(data.voiceDescriptors) <= MaxVoiceDescriptors
    /\ \A i \in 1..Len(data.examples) : ValidExample(data.examples[i])

\* the BrandProfile built from a document (aliases mapped to field names)
model_validate(data) ==
    [name |-> data.name,
     version |-> data.version,
     values |-> data.values,
     voice_descriptors |-> data.voiceDescriptors,
     tone_acceptable |-> data.toneAcceptable,
     tone_unacceptable |-> data.toneUnacceptable,
     never_rules |-> data.neverRules,
     examples |-> data.examples]

(***************************************************************************)
(* Inputs: the profile documents and the contents that are evaluated       *)
(***************************************************************************)
Version100 == <<"1", ".", "0", ".", "0">>
ProfileName == <<"a">>

Good(text) == [content |-> text, type |-> "good"]
Bad(text) == [content |-> text, type |-> "bad"]

\* neverRules lists: none, one, and two rules in both declaration orders
\* (" A" normalizes to "a", which sorts before "b")
NeverRuleLists ==
    {<<>>, <<<<"b">>>>, <<<<"b">>, <<" ", "A">>>>, <<<<" ", "A">>, <<"b">>>>}

\* toneUnacceptable lists; " " normalizes to the empty phrase
ToneUnacceptableLists == {<<>>, <<<<".">>>>, <<<<" ">>, <<".">>>>}

\* "A" is found in content that holds an "a"
ToneAcceptableLists == {<<>>, <<<<"A">>, <<".">>>>}

ExampleLists ==
    {<<>>,
     <<Bad(<<"a", " ", "b">>)>>,
     <<Bad(<<"a">>), Good(<<"b">>), Bad(<<"b", " ", "a", " ", "a", "b">>)>>,
     <<Good(<<"a", ".">>)>>,
     <<Bad(<<"a", " ", "b", " ", "a", "b", " ", "b", "a">>)>>}

\* <<values, voiceDescriptors>> pairs; they reach combined scores below 0.3,
\* equal to 0.3, between 0.3 and 0.5, equal to 0.5 and above
ValueVoiceLists ==
    {<<<< <<"a">> >>, << <<"b">> >>>>,
     <<<< <<"a">>, <<"a">>, <<"a">>, <<"b">>, <<"b">> >>, << <<"b">> >>>>,
     <<<< <<"a">>, <<"b">>, <<"a", "b">> >>, << <<"a">>, <<" ">> >>>>,
     <<<< <<"a", "b">> >>, << <<"a">>, <<"b">>, <<".">> >>>>}

\* well-formed documents that exercise the rule stages
RuleDocs ==
    {[name |-> ProfileName, version |-> Version100,
      values |-> vv[1], voiceDescriptors |-> vv[2],
      toneAcceptable |-> ta, toneUnacceptable |-> tu,
      neverRules |-> nr, examples |-> ex] :
        vv \in ValueVoiceLists, ta \in ToneAcceptableLists,
        tu \in ToneUnacceptableLists, nr \in NeverRuleLists,
        ex \in ExampleLists}

BaseDoc ==
    [name |-> ProfileName, version |-> Version100,
     values |-> << <<"a">> >>, voiceDescriptors |-> << <<"b">> >>,
     toneAcceptable |-> <<>>, toneUnacceptable |-> <<>>,
     neverRules |-> << <<"b">> >>, examples |-> <<>>]

\* a list of n copies of the phrase "a"
Copies(n) == [i \in 1..n |-> <<"a">>]

\* documents at and beyond the limits of the schema
SchemaDocs ==
    {[BaseDoc EXCEPT !.name = <<>>]}
    \cup {[BaseDoc EXCEPT !.version = v] :
            v \in {<<"1", ".", "0">>, <<"1", ".", "0", ".", "0", "\n">>,
                   <<"v", "1", ".", "0", ".", "0">>, <<"1", ".", ".", "0">>,
                   <<"1", "2", ".", "0", ".", "1", "0">>, <<>>}}
    \cup {[BaseDoc EXCEPT !.values = Copies(n)] : n \in {0, MaxValues, MaxValues + 1}}
    \cup {[BaseDoc EXCEPT !.values = << <<>> >>]}
    \cup {[BaseDoc EXCEPT !.neverRules = << r >>] : r \in {<<>>, <<" ">>}}
    \cup {[BaseDoc EXCEPT !.voiceDescriptors = Copies(n)] :
            n \in {0, MaxVoiceDescriptors, MaxVoiceDescriptors + 1}}
    \cup {[BaseDoc EXCEPT !.examples = <<e>>] :
            e \in {Good(<<>>), [content |-> <<"a">>, type |-> "ugly"]}}

\* what the profile path holds: nothing, text that is not JSON, or a document
Files ==
    {[kind |-> "missing", data |-> BaseDoc], [kind |-> "not-json", data |-> BaseDoc]}
    \cup {[kind |-> "json", data |-> d] : d \in RuleDocs \cup SchemaDocs}

Contents == SeqsUpTo(Chars, MaxContentLen)

(***************************************************************************)
(* Helpers of the verdict composer                                         *)
(***************************************************************************)
\* ord() of the modelled characters
Ord(c) ==
    CASE c = "\n" -> 10 [] c = " " -> 32 [] c = "." -> 46
      [] c = "0" -> 48 [] c = "1" -> 49 [] c = "2" -> 50
      [] c = "A" -> 65 [] c = "a" -> 97 [] c = "b" -> 98
      [] c = "v" -> 118 [] OTHER -> 55296

\* s < t for Python strings: lexicographic by code point
RECURSIVE StrLess(_, _)
StrLess(s, t) ==
    IF t = <<>> THEN FALSE
    ELSE IF s = <<>> THEN TRUE
    ELSE IF Head(s) # Head(t) THEN Ord(Head(s)) < Ord(Head(t))
    ELSE StrLess(Tail(s), Tail(t))

\* insert x after the entries that are not greater than it
RECURSIVE InsertSorted(_, _)
InsertSorted(x, list) ==
    IF list = <<>> THEN <<x>>
    ELSE IF StrLess(x, Head(list)) THEN <<x>> \o list
    ELSE <<Head(list)>> \o InsertSorted(x, Tail(list))

\* sorted(list) for a list of strings
RECURSIVE sorted(_)
sorted(list) ==
    IF list = <<>> THEN <<>>
    ELSE InsertSorted(list[Len(list)], sorted(SubSeq(list, 1, Len(list) - 1)))

\* list[:n]
Take(list, n) == SubSeq(list, 1, IF Len(list) < n THEN Len(list) ELSE n)

\* [x for x in list if contains_phrase(content, x)]
Found(text, list) == SelectSeq(list, LAMBDA x : contains_phrase(text, x))

\* [x for x in list if not contains_phrase(content, x)]
Missing(text, list) == SelectSeq(list, LAMBDA x : ~contains_phrase(text, x))

\* max(n, 1)
AtLeastOne(n) == IF n > 1 THEN n ELSE 1

\* max(a, b) on integers
IntMax(a, b) == IF b > a THEN b ELSE a

\* the order on-brand < borderline < off-brand
StatusRank(s) ==
    CASE s = "on-brand" -> 0 [] s = "borderline" -> 1 [] s = "off-brand" -> 2

\* severity_order.get(x.get("severity", "info"), 2)
SeverityRank(e) ==
    CASE e.severity = "critical" -> 0
      [] e.severity = "warning" -> 1
      [] OTHER -> 2

\* mutant: the sort puts the least severe explanation first
SortDescending(list) ==
    SelectSeq(list, LAMBDA e : SeverityRank(e) = 2)
    \o SelectSeq(list, LAMBDA e : SeverityRank(e) = 1)
    \o SelectSeq(list, LAMBDA e : SeverityRank(e) = 0)

\* list.sort(key = severity rank): stable, so equal ranks keep their order
SortBySeverity(list) ==
    SelectSeq(list, LAMBDA e : SeverityRank(e) = 0)
    \o SelectSeq(list, LAMBDA e : SeverityRank(e) = 1)
    \o SelectSeq(list, LAMBDA e : SeverityRank(e) = 2)

\* an explanation dictionary; the text is the fixed message and what the
\* f-string interpolates into it
Explanation(msg, args, aspect, severity) ==
    [text |-> [msg |-> msg, args |-> args], aspect |-> aspect, severity |-> severity]

\* the fold over profile.examples: the running maximum for one example type
RECURSIVE MaxSimilarity(_, _, _)
MaxSimilarity(text, examples, good) ==
    IF examples = <<>> THEN Zero
    ELSE LET n == Len(examples)
             rest == MaxSimilarity(text, SubSeq(examples, 1, n - 1), good)
             sim == calculate_word_overlap(text, examples[n].content)
         IN  IF (examples[n].type = "good") = good THEN RatMax(rest, sim) ELSE rest

\* (value_score + voice_score) / 2
Combined(value, voice) ==
    <<value[1] * voice[2] + voice[1] * value[2], 2 * value[2] * voice[2]>>

\* int(x * 15) for a ratio x >= 0
ScaledFloor(x) == (15 * x[1]) \div x[2]

\* str.encode(): UTF-8 encoding is defined unless a lone surrogate occurs
CanEncode(text) == \A i \in 1..Len(text) : text[i] # Surrogate

\* compute_content_hash: the digest, held as the bytes it is taken over
compute_content_hash(text) == [i \in 1..Len(text) |-> Ord(text[i])]

\* the status -> label dictionary
StatusDisplay(s) ==
    CASE s = "on-brand" -> "On Brand"
      [] s = "borderline" -> "Borderline"
      [] s = "off-brand" -> "Off Brand"

(***************************************************************************)
(* State                                                                   *)
(***************************************************************************)
VARIABLES
    content,            \* the content argument of _run
    file,               \* what profile_path holds
    now,                \* the clock read by datetime.utcnow()
    pc,                 \* the position of _run
    profile,            \* the validated BrandProfile
    status,             \* local: status
    confidence,         \* local: confidence
    explanations,       \* local: explanations
    never_violations,   \* local: never_violations
    unacceptable_found, \* local: unacceptable_found
    acceptable_found,   \* local: acceptable_found
    good_similarity,    \* local: good_similarity
    bad_similarity,     \* local: bad_similarity
    values_aligned,     \* local: values_aligned
    voice_aligned,      \* local: voice_aligned
    value_score,        \* local: value_score
    voice_score,        \* local: voice_score
    combined_score,     \* local: combined_score
    result,             \* the dictionary _run returned
    exception,          \* the exception that left _run, if any
    previous,           \* the result of the preceding call on (content, file)
    calls,              \* how many further calls the caller makes
    mode,               \* the entry point that is running
    request,            \* what the entry point was given
    queue,              \* the contents the entry point has still to check
    results,            \* the results the entry point has collected
    exit_code,          \* the exit code of the command line, once it has one
    response,           \* the HTTP response, once the handler has sent one
    summary,            \* the dictionary get_summary returned
    text1,              \* calculate_word_overlap: text1
    text2,              \* calculate_word_overlap: text2
    overlap             \* calculate_word_overlap: the value returned

inputs == <<content, file>>
findings == <<never_violations, unacceptable_found, acceptable_found,
              good_similarity, bad_similarity, values_aligned, voice_aligned,
              value_score, voice_score, combined_score>>
locals == <<profile, status, confidence, explanations, findings>>
outcome == <<result, exception>>
entry == <<mode, request, queue, results, exit_code, response>>
functions == <<summary, text1, text2, overlap>>
caller == <<now, previous, calls, entry, functions>>
vars == <<inputs, pc, locals, outcome, caller>>

\* no dictionary returned yet
NoResult == <<>>

\* locals before _run assigns them
InitLocals ==
    /\ profile = model_validate(BaseDoc)
    /\ status = "on-brand"
    /\ confidence = 0
    /\ explanations = <<>>
    /\ never_violations = <<>>
    /\ unacceptable_found = <<>>
    /\ acceptable_found = <<>>
    /\ good_similarity = Zero
    /\ bad_similarity = Zero
    /\ values_aligned = <<>>
    /\ voice_aligned = <<>>
    /\ value_score = Zero
    /\ voice_score = Zero
    /\ combined_score = Zero

\* no exit code yet
NoExit == -1

\* no response sent yet
NoResponse == <<>>

\* no summary computed yet
NoSummary == <<>>

\* no entry point is running: _run is called directly
NoEntry ==
    /\ mode = "run"
    /\ request = [kind |-> "none"]
    /\ queue = <<>>
    /\ results = <<>>
    /\ exit_code = NoExit
    /\ response = NoResponse

\* neither get_summary nor calculate_word_overlap is under study
NoFunctions ==
    /\ summary = NoSummary
    /\ text1 = <<>>
    /\ text2 = <<>>
    /\ overlap = Zero

\* one call of BrandCheckerTool._run on any content and any profile file
Init ==
    /\ content \in Contents
    /\ file \in Files
    /\ now = 0
    /\ pc = "load"
    /\ InitLocals
    /\ result = NoResult
    /\ exception = "none"
    /\ previous = NoResult
    /\ calls = 0
    /\ NoEntry
    /\ NoFunctions

(***************************************************************************)
(* BrandCheckerTool._run, one action per stage                             *)
(***************************************************************************)
\* mutant: the load does not validate the document
LoadAccepts(f) ==
    f.kind = "json"

\* json.load and BrandProfile.model_validate both succeed
LoadSucceeds(f) ==
    f.kind = "json" /\ model_validate_ok(f.data)

\* mutant: the explanation list outlives the call (a shared mutable list)
LoadProfileSharedList ==
    /\ pc = "load"
    /\ IF file.kind = "missing"
       THEN /\ result' = [error |-> "Profile not found"]
            /\ pc' = "returned"
            /\ UNCHANGED locals
       ELSE IF ~LoadSucceeds(file)
       THEN /\ result' = [error |-> "Failed to load profile"]
            /\ pc' = "returned"
            /\ UNCHANGED locals
       ELSE /\ profile' = model_validate(file.data)
            /\ status' = "on-brand"
            /\ confidence' = 85
            /\ pc' = "never"
            /\ UNCHANGED <<explanations, findings, result>>
    /\ UNCHANGED <<inputs, exception, caller>>

\* lines 259-273: load the profile or return an error dictionary
LoadProfile ==
    /\ pc = "load"
    /\ IF file.kind = "missing"
       THEN /\ result' = [error |-> "Profile not found"]
            /\ pc' = "returned"
            /\ UNCHANGED locals
       ELSE IF ~LoadSucceeds(file)
       THEN /\ result' = [error |-> "Failed to load profile"]
            /\ pc' = "returned"
            /\ UNCHANGED locals
       ELSE /\ profile' = model_validate(file.data)
            /\ explanations' = <<>>
            /\ status' = "on-brand"
            /\ confidence' = 85
            /\ pc' = "never"
            /\ UNCHANGED <<findings, result>>
    /\ UNCHANGED <<inputs, exception, caller>>

\* mutant: the explanation names the first rule of the sorted list
NeverRuleNamedSorted(violations) == sorted(violations)[1]

\* never_violations[0]: the first violated rule in declaration order
NeverRuleNamed(violations) == violations[1]

\* lines 275-288: never rules
NeverStage ==
    /\ pc = "never"
    /\ LET violations == Found(content, profile.never_rules)
       IN  /\ never_violations' = violations
           /\ IF violations # <<>>
              THEN /\ status' = "off-brand"
                   /\ confidence' = 95
                   /\ explanations' = Append(explanations,
                          Explanation("Contains prohibited content",
                                      <<NeverRuleNamed(violations)>>,
                                      "never-rule", "critical"))
              ELSE UNCHANGED <<status, confidence, explanations>>
    /\ pc' = "tone"
    /\ UNCHANGED <<inputs, profile, unacceptable_found, acceptable_found,
                   good_similarity, bad_similarity, values_aligned,
                   voice_aligned, value_score, voice_score, combined_score,
                   outcome, caller>>

\* lines 290-308: tone boundaries
ToneStage ==
    /\ pc = "tone"
    /\ LET unacceptable == Found(content, profile.tone_unacceptable)
       IN  /\ unacceptable_found' = unacceptable
           /\ acceptable_found' = Found(content, profile.tone_acceptable)
           /\ IF unacceptable # <<>>
              THEN /\ status' = "off-brand"
                   /\ confidence' = IntMax(confidence, 90)
                   /\ explanations' =
                        IF Len(explanations) < 3
                        THEN Append(explanations,
                                 Explanation("Uses unacceptable tone",
                                             <<unacceptable[1]>>,
                                             "tone", "critical"))
                        ELSE explanations
              ELSE UNCHANGED <<status, confidence, explanations>>
    /\ pc' = "examples"
    /\ UNCHANGED <<inputs, profile, never_violations, good_similarity,
                   bad_similarity, values_aligned, voice_aligned, value_score,
                   voice_score, combined_score, outcome, caller>>

\* mutant: a moderate resemblance sets borderline whatever the status was
ExampleStatusOverwrite(current, bad) ==
    IF RatGT(bad, Threshold05) THEN "off-brand" ELSE "borderline"

\* mutant: a resemblance of exactly 0.5 already gives off-brand
ExampleStatusAtHalf(current, bad) ==
    IF current # "off-brand"
    THEN IF RatLT(bad, Threshold05) THEN "borderline" ELSE "off-brand"
    ELSE current

\* lines 321-326: the status after a resemblance above 0.3
ExampleStatus(current, bad) ==
    IF current # "off-brand"
    THEN IF RatGT(bad, Threshold05) THEN "off-brand" ELSE "borderline"
    ELSE current

\* mutant: the last bad example decides instead of the closest one
BadSimilarityLast(text, examples) ==
    LET bads == SelectSeq(examples, LAMBDA e : e.type # "good")
    IN  IF bads = <<>> THEN Zero
        ELSE calculate_word_overlap(text, bads[Len(bads)].content)

\* lines 312-318: the largest similarity to an example that is not good
BadSimilarity(text, examples) == MaxSimilarity(text, examples, FALSE)

\* mutant: a resemblance is never more than a warning
ExampleSeverityWarning(bad) == "warning"

\* line 331: the severity of the resemblance explanation
ExampleSeverity(bad) ==
    IF RatGT(bad, Threshold05) THEN "critical" ELSE "warning"

\* lines 310-333: example similarity
ExampleStage ==
    /\ pc = "examples"
    /\ LET bad == BadSimilarity(content, profile.examples)
       IN  /\ good_similarity' = MaxSimilarity(content, profile.examples, TRUE)
           /\ bad_similarity' = bad
           /\ IF RatGT(bad, Threshold03)
              THEN /\ status' = ExampleStatus(status, bad)
                   /\ confidence' = IntMax(confidence, 80)
                   /\ explanations' =
                        IF Len(explanations) < 3
                        THEN Append(explanations,
                                 Explanation(
                                     "Content resembles known off-brand examples",
                                     <<>>, "example-match",
                                     ExampleSeverity(bad)))
                        ELSE explanations
              ELSE UNCHANGED <<status, confidence, explanations>>
    /\ pc' = "values"
    /\ UNCHANGED <<inputs, profile, never_violations, unacceptable_found,
                   acceptable_found, values_aligned, voice_aligned,
                   value_score, voice_score, combined_score, outcome, caller>>

\* mutant: a combined score of exactly 0.5 is still borderline
AlignmentStatusStrict(current, combined) ==
    IF current = "on-brand" /\ ~RatGT(combined, Threshold05)
    THEN "borderline" ELSE current

\* lines 343-351: the status the value/voice stage leaves
AlignmentStatus(current, combined) ==
    IF current = "on-brand" /\ RatLT(combined, Threshold05)
    THEN "borderline" ELSE current

\* lines 343-351: the confidence the value/voice stage leaves
AlignmentConfidence(current, conf, combined) ==
    IF current = "on-brand"
    THEN IF RatLT(combined, Threshold03) THEN 70
         ELSE IF RatLT(combined, Threshold05) THEN 75
         ELSE 80 + ScaledFloor(combined)
    ELSE conf

\* lines 335-351: value and voice alignment
ValueVoiceStage ==
    /\ pc = "values"
    /\ LET aligned == Found(content, profile.values)
           voiced == Found(content, profile.voice_descriptors)
           value == <<Len(aligned), AtLeastOne(Len(profile.values))>>
           voice == <<Len(voiced), AtLeastOne(Len(profile.voice_descriptors))>>
           combined == Combined(value, voice)
       IN  /\ values_aligned' = aligned
           /\ voice_aligned' = voiced
           /\ value_score' = value
           /\ voice_score' = voice
           /\ combined_score' = combined
           /\ status' = AlignmentStatus(status, combined)
           /\ confidence' = AlignmentConfidence(status, confidence, combined)
    /\ pc' = "positive"
    /\ UNCHANGED <<inputs, profile, explanations, never_violations,
                   unacceptable_found, acceptable_found, good_similarity,
                   bad_similarity, outcome, caller>>

\* lines 355-373: the one informational explanation of an empty list
PositiveExplanation ==
    IF RatGT(good_similarity, Threshold03)
    THEN Explanation("Content aligns well with established brand examples",
                     <<>>, "example-match", "info")
    ELSE IF RatGT(value_score, Threshold05)
    THEN Explanation("Content reflects brand values",
                     Take(values_aligned, 2), "value", "info")
    ELSE Explanation("Content is acceptable but could better reflect brand values",
                     <<>>, "value", "info")

\* lines 353-373: positive or constructive explanation
PositiveStage ==
    /\ pc = "positive"
    /\ explanations' =
         IF explanations = <<>> THEN <<PositiveExplanation>> ELSE explanations
    /\ pc' = "voice"
    /\ UNCHANGED <<inputs, profile, status, confidence, findings, outcome, caller>>

\* mutant: the voice note is never added
VoiceNoteNever == FALSE

\* line 376: the guard of the voice note
VoiceNoteDue ==
    /\ Len(explanations) < 3
    /\ RatLT(voice_score, Threshold05)
    /\ status # "off-brand"

\* lines 375-384: voice explanation if space
VoiceStage ==
    /\ pc = "voice"
    /\ LET voice_missing == Missing(content, profile.voice_descriptors)
       IN  explanations' =
             IF VoiceNoteDue /\ voice_missing # <<>>
             THEN Append(explanations,
                      Explanation("Voice could better emphasize",
                                  Take(voice_missing, 2), "voice", "info"))
             ELSE explanations
    /\ pc' = "acceptable"
    /\ UNCHANGED <<inputs, profile, status, confidence, findings, outcome, caller>>

\* mutant: the acceptable-tone note is added whatever the list holds
ToneNoteDueUncapped == acceptable_found # <<>>

\* line 387: the guard of the acceptable-tone note
ToneNoteDue == Len(explanations) < 3 /\ acceptable_found # <<>>

\* lines 386-393: acceptable tone if space
AcceptableToneStage ==
    /\ pc = "acceptable"
    /\ explanations' =
         IF ToneNoteDue
         THEN Append(explanations,
                  Explanation("Good use of brand tone",
                              Take(acceptable_found, 2), "tone", "info"))
         ELSE explanations
    /\ pc' = "ensure"
    /\ UNCHANGED <<inputs, profile, status, confidence, findings, outcome, caller>>

\* lines 395-404: at least one explanation (this one carries no aspect)
EnsureStage ==
    /\ pc = "ensure"
    /\ explanations' =
         IF explanations = <<>>
         THEN <<[text |-> [msg |-> IF status = "on-brand"
                                   THEN "Content aligns with brand guidelines"
                                   ELSE "Content requires review for brand alignment",
                           args |-> <<>>],
                 severity |-> "info"]>>
         ELSE explanations
    /\ pc' = "sort"
    /\ UNCHANGED <<inputs, profile, status, confidence, findings, outcome, caller>>

\* mutant: the slice keeps what lies beyond the first three
SortedAndCutTail(list) ==
    SubSeq(SortBySeverity(list), 4, Len(list))

\* lines 406-409: sort by severity and keep the first three
SortedAndCut(list) == Take(SortBySeverity(list), 3)

\* lines 406-409 as one step
SortStage ==
    /\ pc = "sort"
    /\ explanations' = SortedAndCut(explanations)
    /\ pc' = "return"
    /\ UNCHANGED <<inputs, profile, status, confidence, findings, outcome, caller>>

\* lines 418-436: the returned dictionary
Verdict ==
    [status |-> status,
     statusDisplay |-> StatusDisplay(status),
     explanations |-> explanations,
     confidence |-> confidence,
     profileVersion |-> profile.version,
     checkedAt |-> now,
     contentHash |-> compute_content_hash(content),
     details |->
        [neverRuleViolations |-> sorted(never_violations),
         unacceptableToneFound |-> sorted(unacceptable_found),
         valueAlignmentScore |-> value_score,
         voiceAlignmentScore |-> voice_score,
         exampleSimilarity |-> [good |-> good_similarity, bad |-> bad_similarity]]]

\* line 425: content.encode() raises UnicodeEncodeError on a lone surrogate
Hashable(text) == CanEncode(text)

\* lines 411-436: build and return the verdict
ReturnStage ==
    /\ pc = "return"
    /\ IF Hashable(content)
       THEN /\ result' = Verdict
            /\ pc' = "returned"
            /\ UNCHANGED exception
       ELSE /\ exception' = "UnicodeEncodeError"
            /\ pc' = "raised"
            /\ UNCHANGED result
    /\ UNCHANGED <<inputs, locals, caller>>

\* the stages of one call
Next ==
    \/ LoadProfile
    \/ NeverStage
    \/ ToneStage
    \/ ExampleStage
    \/ ValueVoiceStage
    \/ PositiveStage
    \/ VoiceStage
    \/ AcceptableToneStage
    \/ EnsureStage
    \/ SortStage
    \/ ReturnStage

Spec == Init /\ [][Next]_vars

(***************************************************************************)
(* A caller that evaluates the same content against the same file twice    *)
(***************************************************************************)
\* the caller keeps the first result and calls _run again, later; the new
\* call's locals hold nothing of use until _run assigns them
CallAgain ==
    /\ pc = "returned"
    /\ calls = 0
    /\ previous' = result
    /\ calls' = 1
    /\ now' = now + 1
    /\ pc' = "load"
    /\ result' = NoResult
    /\ UNCHANGED <<inputs, locals, exception, entry, functions>>

NextRepeat == Next \/ CallAgain

SpecRepeat == Init /\ [][NextRepeat]_vars

(***************************************************************************)
(* SimpleBrandChecker.get_summary                                          *)
(***************************************************************************)
\* r.get(key)
Get(r, key) == IF key \in DOMAIN r THEN r[key] ELSE "None"

\* sum(1 for r in results if r.get("status") == s)
CountStatus(list, s) ==
    Cardinality({i \in 1..Len(list) : Get(list[i], "status") = s})

\* [i for i, r in enumerate(results) if r.get("status") == "off-brand"]
NeedsAttention(list) ==
    SelectSeq([i \in 1..Len(list) |-> i - 1],
              LAMBDA i : Get(list[i + 1], "status") = "off-brand")

\* mutant: the quotient is cut to the digit, not rounded
RoundDown(n, d) == n \div d

\* the integer nearest to n / d, the even one of two that are equally near
RoundHalfEven(n, d) ==
    LET q == n \div d
        r == n % d
    IN  IF 2 * r < d THEN q
        ELSE IF 2 * r > d THEN q + 1
        ELSE IF q % 2 = 0 THEN q ELSE q + 1

\* round(x, ndigits) on a ratio
round(x, ndigits) ==
    <<RoundHalfEven(x[1] * 10 ^ ndigits, x[2]), 10 ^ ndigits>>

\* lines 245-266
get_summary(list) ==
    LET on_brand == CountStatus(list, "on-brand")
        borderline == CountStatus(list, "borderline")
        off_brand == CountStatus(list, "off-brand")
        total == Len(list)
        health_score ==
            IF total > 0 THEN <<on_brand * 100 + borderline * 50, total>>
            ELSE Zero
    IN  [total |-> total,
         on_brand |-> on_brand,
         borderline |-> borderline,
         off_brand |-> off_brand,
         health_score |-> round(health_score, 1),
         needs_attention |-> NeedsAttention(list)]

(***************************************************************************)
(* The entry points: the command line, the HTTP handler, check_batch       *)
(***************************************************************************)
\* the largest number of items in a batch
MaxBatch == 2

Version200 == <<"2", ".", "0", ".", "0">>

\* the profile path holds nothing, no JSON, a profile, or its next version
EntryFiles ==
    {[kind |-> "missing", data |-> BaseDoc],
     [kind |-> "not-json", data |-> BaseDoc],
     [kind |-> "json", data |-> BaseDoc],
     [kind |-> "json", data |-> [BaseDoc EXCEPT !.version = Version200]]}

\* the empty content, an on-brand one, an off-brand one, an unencodable one
EntryContents == {<<>>, <<"a">>, <<"b">>, <<Surrogate>>}

\* what a file read with read_text() can hold
FileContents == {t \in EntryContents : CanEncode(t)}

Request(kind, texts) == [kind |-> kind, texts |-> texts]

\* on-brand check: --file PATH, CONTENT, or neither
CheckRequests ==
    {Request("file", <<t>>) : t \in FileContents}
    \cup {Request("content", <<t>>) : t \in EntryContents}
    \cup {Request(k, <<>>) : k \in {"file-missing", "file-unreadable"}}

\* on-brand batch DIR: the files of the directory in sorted order
BatchRequests ==
    {Request("dir", texts) : texts \in SeqsUpTo(FileContents, MaxBatch)}
    \cup {Request("dir-missing", <<>>)}

\* POST: a JSON object with or without "content", other text, another path
PostRequests ==
    {Request("json", <<t>>) : t \in EntryContents}
    \cup {Request(k, <<>>) : k \in {"json-no-content", "not-json", "other-path"}}

\* SimpleBrandChecker.check_batch(content_items)
ItemsRequests ==
    {Request("items", texts) : texts \in SeqsUpTo(EntryContents, MaxBatch)}

Requests(m) ==
    CASE m = "check" -> CheckRequests
      [] m = "batch" -> BatchRequests
      [] m = "post" -> PostRequests
      [] m = "check_batch" -> ItemsRequests

Modes == {"check", "batch", "post", "check_batch"}

InitEntry ==
    /\ mode \in Modes
    /\ request \in Requests(mode)
    /\ file \in EntryFiles
    /\ content = <<>>
    /\ queue = <<>>
    /\ results = <<>>
    /\ exit_code = NoExit
    /\ response = NoResponse
    /\ now = 0
    /\ pc = "entry"
    /\ InitLocals
    /\ result = NoResult
    /\ exception = "none"
    /\ previous = NoResult
    /\ calls = 0
    /\ NoFunctions

\* the entry point calls checker.check(text), which calls _run
Call(text) ==
    /\ content' = text
    /\ pc' = "load"
    /\ result' = NoResult

\* sys.exit(code)
Exit(code) ==
    /\ exit_code' = code
    /\ pc' = "done"

\* main.py lines 280-300: the check command gets its content
MainCheck ==
    /\ mode = "check" /\ pc = "entry"
    /\ CASE request.kind = "file-missing" ->
              Exit(2) /\ UNCHANGED <<content, result>>
         [] request.kind = "file-unreadable" ->
              \* read_text() raises outside every try: the interpreter
              \* prints the traceback and exits with 1
              Exit(1) /\ UNCHANGED <<content, result>>
         [] request.kind = "file" ->
              Call(request.texts[1]) /\ UNCHANGED exit_code
         [] request.kind = "content" /\ request.texts[1] # <<>> ->
              Call(request.texts[1]) /\ UNCHANGED exit_code
         [] OTHER ->
              Exit(2) /\ UNCHANGED <<content, result>>
    /\ UNCHANGED <<file, locals, exception, now, previous, calls, mode,
                   request, queue, results, response, functions>>

\* main.py lines 41-73: the exit code of check_content
CheckContentExit ==
    IF pc = "raised" THEN 2
    ELSE IF "error" \in DOMAIN result THEN 2
    ELSE IF Get(result, "status") = "off-brand" THEN 1
    ELSE 0

CheckContentReturn ==
    /\ mode = "check" /\ pc \in {"returned", "raised"}
    /\ Exit(CheckContentExit)
    /\ UNCHANGED <<inputs, locals, outcome, now, previous, calls, mode,
                   request, queue, results, response, functions>>

\* main.py lines 82-96: the batch command lists the directory
CheckBatchBegin ==
    /\ mode = "batch" /\ pc = "entry"
    /\ IF request.kind = "dir-missing" THEN Exit(2) /\ UNCHANGED queue
       ELSE IF request.texts = <<>> THEN Exit(0) /\ UNCHANGED queue
       ELSE queue' = request.texts /\ pc' = "next" /\ UNCHANGED exit_code
    /\ UNCHANGED <<inputs, locals, outcome, now, previous, calls, mode,
                   request, results, response, functions>>

\* main.py lines 97-99 and crew.py line 233: the next item is checked
NextItem ==
    /\ mode \in {"batch", "check_batch"} /\ pc = "next"
    /\ queue # <<>>
    /\ Call(Head(queue))
    /\ queue' = Tail(queue)
    /\ now' = now + 1
    /\ UNCHANGED <<file, locals, exception, previous, calls, mode, request,
                   results, exit_code, response, functions>>

\* main.py lines 100-101: the result is labelled with its file and kept
CheckBatchCollect ==
    /\ mode = "batch" /\ pc = "returned"
    /\ results' = Append(results, result @@ [file |-> Len(results) + 1])
    /\ pc' = "next"
    /\ UNCHANGED <<inputs, locals, outcome, now, previous, calls, mode,
                   request, queue, exit_code, response, functions>>

\* main.py lines 103-135: the summary decides the exit code
CheckBatchEnd ==
    /\ mode = "batch"
    /\ pc \in {"next", "raised"}
    /\ pc = "next" => queue = <<>>
    /\ IF pc = "raised" THEN Exit(2) /\ UNCHANGED summary
       ELSE /\ summary' = get_summary(results)
            /\ Exit(IF summary'.off_brand > 0 THEN 1 ELSE 0)
    /\ UNCHANGED <<inputs, locals, outcome, now, previous, calls, mode,
                   request, queue, results, response, text1, text2, overlap>>

\* main.py lines 168-177 and 185-194: the handler reads the request
DoPost ==
    /\ mode = "post" /\ pc = "entry"
    /\ CASE request.kind = "other-path" ->
              /\ response' = [status |-> 404, body |-> <<>>]
              /\ pc' = "done"
              /\ UNCHANGED <<content, result>>
         [] request.kind = "not-json" ->
              /\ response' = [status |-> 400, body |-> [error |-> "Invalid JSON"]]
              /\ pc' = "done"
              /\ UNCHANGED <<content, result>>
         [] request.kind = "json" ->
              Call(request.texts[1]) /\ UNCHANGED response
         [] OTHER ->
              \* data.get("content", "")
              Call(<<>>) /\ UNCHANGED response
    /\ UNCHANGED <<file, locals, exception, now, previous, calls, mode,
                   request, queue, results, exit_code, functions>>

\* main.py lines 179-183: the handler sends the result; an exception of
\* check leaves the handler with nothing sent
DoPostRespond ==
    /\ mode = "post" /\ pc \in {"returned", "raised"}
    /\ IF pc = "returned"
       THEN response' = [status |-> 200, body |-> result]
       ELSE UNCHANGED response
    /\ pc' = "done"
    /\ UNCHANGED <<inputs, locals, outcome, now, previous, calls, mode,
                   request, queue, results, exit_code, functions>>

\* crew.py line 233: check_batch starts on its list
CrewBatchBegin ==
    /\ mode = "check_batch" /\ pc = "entry"
    /\ queue' = request.texts
    /\ pc' = "next"
    /\ UNCHANGED <<inputs, locals, outcome, now, previous, calls, mode,
                   request, results, exit_code, response, functions>>

\* crew.py line 233: the result joins the list
CrewBatchCollect ==
    /\ mode = "check_batch" /\ pc = "returned"
    /\ results' = Append(results, result)
    /\ pc' = "next"
    /\ UNCHANGED <<inputs, locals, outcome, now, previous, calls, mode,
                   request, queue, exit_code, response, functions>>

\* crew.py line 233: the list is returned, or the exception of an item
\* leaves check_batch
CrewBatchEnd ==
    /\ mode = "check_batch"
    /\ pc \in {"next", "raised"}
    /\ pc = "next" => queue = <<>>
    /\ pc' = "done"
    /\ UNCHANGED <<inputs, locals, outcome, caller>>

\* another process replaces or deletes the profile file
ReplaceProfile ==
    /\ pc \notin {"entry", "done"}
    /\ file' \in EntryFiles \ {file}
    /\ UNCHANGED <<content, pc, locals, outcome, caller>>

NextEntry ==
    \/ Next
    \/ MainCheck
    \/ CheckContentReturn
    \/ CheckBatchBegin
    \/ NextItem
    \/ CheckBatchCollect
    \/ CheckBatchEnd
    \/ DoPost
    \/ DoPostRespond
    \/ CrewBatchBegin
    \/ CrewBatchCollect
    \/ CrewBatchEnd
    \/ ReplaceProfile

SpecEntry == InitEntry /\ [][NextEntry]_vars

(***************************************************************************)
(* get_summary on any list of results                                      *)
(***************************************************************************)
\* the longest list of results
MaxResults == 8

\* a result as far as get_summary reads it: a verdict or an error dictionary
ResultKinds ==
    {[status |-> st] : st \in {"on-brand", "borderline", "off-brand"}}
    \cup {[error |-> "Profile not found"]}

ResultLists == SeqsUpTo(ResultKinds, MaxResults)

InitSummary ==
    /\ mode = "get_summary"
    /\ results \in ResultLists
    /\ summary = NoSummary
    /\ pc = "entry"
    /\ request = [kind |-> "none"]
    /\ queue = <<>>
    /\ exit_code = NoExit
    /\ response = NoResponse
    /\ content = <<>>
    /\ file = [kind |-> "missing", data |-> BaseDoc]
    /\ now = 0
    /\ InitLocals
    /\ result = NoResult
    /\ exception = "none"
    /\ previous = NoResult
    /\ calls = 0
    /\ text1 = <<>>
    /\ text2 = <<>>
    /\ overlap = Zero

\* checker.get_summary(results)
GetSummary ==
    /\ mode = "get_summary" /\ pc = "entry"
    /\ summary' = get_summary(results)
    /\ pc' = "done"
    /\ UNCHANGED <<inputs, locals, outcome, now, previous, calls, entry,
                   text1, text2, overlap>>

SpecSummary == InitSummary /\ [][GetSummary]_vars

(***************************************************************************)
(* calculate_word_overlap on any two texts                                 *)
(***************************************************************************)
\* the longest text that is compared
MaxTextLen == 3

\* letters in both cases, whitespace and punctuation
TextChars == {"a", "b", "A", " ", "."}

Texts == SeqsUpTo(TextChars, MaxTextLen)

InitOverlap ==
    /\ mode = "calculate_word_overlap"
    /\ text1 \in Texts
    /\ text2 \in Texts
    /\ overlap = Zero
    /\ pc = "entry"
    /\ summary = NoSummary
    /\ request = [kind |-> "none"]
    /\ queue = <<>>
    /\ results = <<>>
    /\ exit_code = NoExit
    /\ response = NoResponse
    /\ content = <<>>
    /\ file = [kind |-> "missing", data |-> BaseDoc]
    /\ now = 0
    /\ InitLocals
    /\ result = NoResult
    /\ exception = "none"
    /\ previous = NoResult
    /\ calls = 0

\* calculate_word_overlap(text1, text2)
Overlap ==
    /\ mode = "calculate_word_overlap" /\ pc = "entry"
    /\ overlap' = calculate_word_overlap(text1, text2)
    /\ pc' = "done"
    /\ UNCHANGED <<inputs, locals, outcome, now, previous, calls, entry,
                   summary, text1, text2>>

SpecOverlap == InitOverlap /\ [][Overlap]_vars

(***************************************************************************)
(* Vocabulary of the properties                                            *)
(***************************************************************************)
\* _run returned a verdict dictionary
IsVerdict == pc = "returned" /\ "status" \in DOMAIN result

\* _run returned an error dictionary
IsError == pc = "returned" /\ "error" \in DOMAIN result

\* the profile file holds a document that passes validation
ValidFile == file.kind = "json" /\ model_validate_ok(file.data)

\* the indices of the entries of a list that the content contains
Hits(list) == {i \in 1..Len(list) : contains_phrase(content, list[i])}

\* the smallest member of a non-empty set of indices
First(S) == CHOOSE i \in S : \A j \in S : i <= j

\* the similarities of the content to the examples that are not good
BadSims ==
    {calculate_word_overlap(content, profile.examples[i].content) :
        i \in {j \in 1..Len(profile.examples) : profile.examples[j].type # "good"}}

BadAbove05 == \E x \in BadSims : RatGT(x, Threshold05)
BadAbove03 == \E x \in BadSims : RatGT(x, Threshold03)

\* an explanation with this message and severity is in the list
Has(list, msg, severity) ==
    \E i \in 1..Len(list) : list[i].text.msg = msg /\ list[i].severity = severity

Resembles == "Content resembles known off-brand examples"
Fallback == "Content is acceptable but could better reflect brand values"

\* the position of the stage that appends an explanation with this message
StageOf(e) ==
    CASE e.text.msg = "Contains prohibited content" -> 1
      [] e.text.msg = "Uses unacceptable tone" -> 2
      [] e.text.msg = Resembles -> 3
      [] e.text.msg = "Voice could better emphasize" -> 5
      [] e.text.msg = "Good use of brand tone" -> 6
      [] OTHER -> 4

(***************************************************************************)
(* C1                                                                      *)
(***************************************************************************)
\* C1: every verdict returned by _run carries at least 1 and at most 3
\* explanations.
C1_ExplanationBounds ==
    IsVerdict =>
        Len(result.explanations) >= 1 /\ Len(result.explanations) <= 3

\* a verdict with three explanations for a content that would have earned a
\* fourth (never rule, tone, resemblance, and an acceptable tone found)
C1_Witness ==
    /\ IsVerdict
    /\ Len(result.explanations) = 3
    /\ never_violations # <<>>
    /\ unacceptable_found # <<>>
    /\ RatGT(bad_similarity, Threshold03)
    /\ acceptable_found # <<>>

(***************************************************************************)
(* C2                                                                      *)
(***************************************************************************)
\* C2: an evaluation starts at on-brand, and each of the stages never-rule,
\* tone, example-similarity and value/voice leaves the status unchanged or
\* moves it upward in the order on-brand < borderline < off-brand.
C2_MonotonicEscalation ==
    [][/\ (pc = "load" /\ pc' = "never") => status' = "on-brand"
       /\ pc \in {"never", "tone", "examples", "values"} =>
            StatusRank(status') >= StatusRank(status)]_vars

\* the example stage is entered off-brand with a moderate resemblance, the
\* case in which an assignment of borderline would de-escalate
C2_Witness ==
    /\ pc = "values"
    /\ status = "off-brand"
    /\ RatGT(bad_similarity, Threshold03)
    /\ ~RatGT(bad_similarity, Threshold05)

(***************************************************************************)
(* C3                                                                      *)
(***************************************************************************)
\* C3: in every verdict the explanations are in non-decreasing severity
\* rank, and explanations of equal severity are in the order of the stages
\* that appended them.
C3_SeverityOrder ==
    IsVerdict =>
        \A i, j \in 1..Len(result.explanations) :
            i < j =>
                LET a == result.explanations[i]
                    b == result.explanations[j]
                IN  /\ SeverityRank(a) <= SeverityRank(b)
                    /\ SeverityRank(a) = SeverityRank(b) => StageOf(a) < StageOf(b)

\* a verdict with a warning followed by two informational notes
C3_Witness ==
    /\ IsVerdict
    /\ Len(result.explanations) = 3
    /\ result.explanations[1].severity = "warning"
    /\ result.explanations[2].severity = "info"
    /\ result.explanations[3].severity = "info"

(***************************************************************************)
(* C4                                                                      *)
(***************************************************************************)
\* C4: a second evaluation of the same content against the same profile,
\* made at a later time, returns the same status, the same confidence and
\* the same explanations list as the first; only checkedAt differs.
C4_Idempotent ==
    (IsVerdict /\ calls = 1) =>
        /\ "status" \in DOMAIN previous
        /\ result.status = previous.status
        /\ result.confidence = previous.confidence
        /\ result.explanations = previous.explanations

\* both calls returned a verdict with three explanations, two of them of
\* equal severity, and the timestamps differ
C4_Witness ==
    /\ IsVerdict
    /\ calls = 1
    /\ result.checkedAt # previous.checkedAt
    /\ Len(result.explanations) = 3
    /\ result.explanations[2].severity = result.explanations[3].severity

(***************************************************************************)
(* C5                                                                      *)
(***************************************************************************)
\* C5: when the content contains a never rule of the profile, the verdict is
\* off-brand with confidence 95, and a critical never-rule explanation names
\* the violated rule that comes first in the profile's declaration order.
C5_NeverRuleForcesOffBrand ==
    (IsVerdict /\ Hits(profile.never_rules) # {}) =>
        /\ result.status = "off-brand"
        /\ result.confidence = 95
        /\ \E i \in 1..Len(result.explanations) :
             /\ result.explanations[i].severity = "critical"
             /\ result.explanations[i].aspect = "never-rule"
             /\ result.explanations[i].text =
                  [msg |-> "Contains prohibited content",
                   args |-> <<profile.never_rules[First(Hits(profile.never_rules))]>>]

\* two rules are violated and the first declared one is not the first of the
\* sorted list that details.neverRuleViolations reports
C5_Witness ==
    /\ IsVerdict
    /\ Cardinality(Hits(profile.never_rules)) = 2
    /\ result.details.neverRuleViolations[1] # profile.never_rules[1]
    /\ result.explanations[1].text.args = <<profile.never_rules[1]>>

(***************************************************************************)
(* C6                                                                      *)
(***************************************************************************)
\* the profile has no never rules, no unacceptable tones and no examples, and
\* the content contains no value and no voice descriptor
C6_Case ==
    /\ IsVerdict
    /\ profile.never_rules = <<>>
    /\ profile.tone_unacceptable = <<>>
    /\ profile.examples = <<>>
    /\ Hits(profile.values) = {}
    /\ Hits(profile.voice_descriptors) = {}

\* C6 as stated: in that case the verdict is borderline with confidence 70
\* and exactly one explanation, the fallback explanation.
C6_SingleFallback ==
    C6_Case =>
        /\ result.status = "borderline"
        /\ result.confidence = 70
        /\ Len(result.explanations) = 1
        /\ result.explanations[1].text.msg = Fallback

\* C6 (amended): in that case the verdict is borderline with confidence 70;
\* its first explanation is the fallback explanation, its second is the voice
\* note naming the first two voice descriptors, and a third, the
\* acceptable-tone note, is present exactly when the content contains an
\* acceptable tone of the profile.
C6_FallbackThenNotes ==
    C6_Case =>
        /\ result.status = "borderline"
        /\ result.confidence = 70
        /\ Len(result.explanations) =
             IF Hits(profile.tone_acceptable) = {} THEN 2 ELSE 3
        /\ result.explanations[1].text.msg = Fallback
        /\ result.explanations[1].severity = "info"
        /\ result.explanations[2].text =
             [msg |-> "Voice could better emphasize",
              args |-> Take(profile.voice_descriptors, 2)]
        /\ Len(result.explanations) = 3 =>
             result.explanations[3].text.msg = "Good use of brand tone"

\* the case occurs with an acceptable tone found: three explanations
C6_Witness ==
    /\ C6_Case
    /\ Hits(profile.tone_acceptable) # {}
    /\ Len(result.explanations) = 3

(***************************************************************************)
(* C7                                                                      *)
(***************************************************************************)
\* C7: with bad the largest similarity of the content to an example that is
\* not good: if bad > 0.5 the verdict is off-brand and holds the resemblance
\* explanation with severity critical; if 0.3 < bad <= 0.5 the stage makes
\* the status borderline unless it already was off-brand, and the verdict
\* holds the resemblance explanation with severity warning; if bad <= 0.3 the
\* stage changes neither status nor explanations.
C7_Verdict ==
    IsVerdict =>
        /\ BadAbove05 =>
             /\ result.status = "off-brand"
             /\ Has(result.explanations, Resembles, "critical")
        /\ (BadAbove03 /\ ~BadAbove05) =>
             /\ Has(result.explanations, Resembles, "warning")
             /\ result.status =
                  IF Hits(profile.never_rules) # {}
                     \/ Hits(profile.tone_unacceptable) # {}
                  THEN "off-brand" ELSE "borderline"
        /\ ~BadAbove03 =>
             \A i \in 1..Len(result.explanations) :
                 result.explanations[i].text.msg # Resembles

C7_Stage ==
    pc = "examples" =>
        /\ BadAbove05 => status' = "off-brand"
        /\ (BadAbove03 /\ ~BadAbove05) =>
             status' = IF status = "off-brand" THEN "off-brand" ELSE "borderline"
        /\ ~BadAbove03 => status' = status /\ explanations' = explanations

C7_ExampleSimilarity == []C7_Verdict /\ [][C7_Stage]_vars

\* the closest bad example is not the last one and lies above 0.5, a later
\* one lies between 0.3 and 0.5, and no earlier stage escalated
C7_Witness ==
    /\ IsVerdict
    /\ never_violations = <<>>
    /\ unacceptable_found = <<>>
    /\ BadAbove05
    /\ \E x \in BadSims : RatGT(x, Threshold03) /\ ~RatGT(x, Threshold05)
    /\ result.status = "off-brand"

(***************************************************************************)
(* C8                                                                      *)
(***************************************************************************)
\* twice the combined score, over the denominator Len(values) * Len(voice)
C8_Twice ==
    Cardinality(Hits(profile.values)) * Len(profile.voice_descriptors)
    + Cardinality(Hits(profile.voice_descriptors)) * Len(profile.values)

C8_Den == Len(profile.values) * Len(profile.voice_descriptors)

\* no never rule violated, no unacceptable tone found, bad similarity <= 0.3
C8_NoEscalation ==
    /\ Hits(profile.never_rules) = {}
    /\ Hits(profile.tone_unacceptable) = {}
    /\ ~BadAbove03

\* C8: when no earlier stage escalated, a combined score below 0.3 gives
\* borderline with confidence 70, one in [0.3, 0.5) gives borderline with
\* confidence 75, and one of at least 0.5 gives on-brand with confidence
\* 80 + floor(15 * score), which lies in 80..95.
C8_Verdict ==
    (IsVerdict /\ C8_NoEscalation) =>
        IF 10 * C8_Twice < 6 * C8_Den
        THEN result.status = "borderline" /\ result.confidence = 70
        ELSE IF C8_Twice < C8_Den
        THEN result.status = "borderline" /\ result.confidence = 75
        ELSE /\ result.status = "on-brand"
             /\ result.confidence = 80 + ((15 * C8_Twice) \div (2 * C8_Den))
             /\ result.confidence >= 80 /\ result.confidence <= 95

\* C8, second part: when an earlier stage escalated, the value/voice stage
\* changes neither status nor confidence.
C8_Stage ==
    (pc = "values" /\ status # "on-brand") =>
        status' = status /\ confidence' = confidence

C8_ValueVoice == []C8_Verdict /\ [][C8_Stage]_vars

\* no escalation and a combined score of exactly 0.5: on-brand, 87
C8_Witness ==
    /\ IsVerdict
    /\ C8_NoEscalation
    /\ C8_Twice = C8_Den
    /\ result.status = "on-brand"
    /\ result.confidence = 87

(***************************************************************************)
(* C9                                                                      *)
(***************************************************************************)
\* the keys of a verdict that the claim lists
C9_Keys ==
    {"status", "statusDisplay", "explanations", "confidence",
     "profileVersion", "contentHash"}

\* C9: for every profile that passes validation and every non-empty content
\* the call ends by returning a verdict: it raises no exception and returns
\* no error dictionary.
C9_AlwaysVerdict ==
    (ValidFile /\ content # <<>> /\ pc \in {"returned", "raised"}) =>
        /\ pc = "returned"
        /\ C9_Keys \subseteq DOMAIN result
        /\ "error" \notin DOMAIN result
        /\ result.status \in {"on-brand", "borderline", "off-brand"}

(***************************************************************************)
(* C10                                                                     *)
(***************************************************************************)
\* C10: a missing profile path gives the error 'Profile not found'; text that
\* is not JSON or a document that fails validation gives the error 'Failed
\* to load profile'; such a result holds the error and nothing else, and no
\* result holds both an error and a status.
C10_LoadErrors ==
    pc = "returned" =>
        /\ file.kind = "missing" =>
             DOMAIN result = {"error"} /\ result.error = "Profile not found"
        /\ (file.kind = "not-json"
            \/ (file.kind = "json" /\ ~model_validate_ok(file.data))) =>
             DOMAIN result = {"error"} /\ result.error = "Failed to load profile"
        /\ ~("error" \in DOMAIN result /\ "status" \in DOMAIN result)

\* a document that parses but fails validation was answered with an error
C10_Witness ==
    /\ IsError
    /\ file.kind = "json"
    /\ ~model_validate_ok(file.data)
    /\ result.error = "Failed to load profile"

(***************************************************************************)
(* C11                                                                     *)
(***************************************************************************)
\* C11: no entry point (SimpleBrandChecker.check, the check command reading
\* a file, the POST handler given a body without "content") produces a
\* verdict for the empty content: the call ends in an error dictionary.
C11_EmptyContentRejected ==
    (pc = "returned" /\ content = <<>>) => "error" \in DOMAIN result

(***************************************************************************)
(* C12                                                                     *)
(***************************************************************************)
\* a command of the command line has ended
CommandDone == mode \in {"check", "batch"} /\ pc = "done"

\* the command met an error: no content, an input that is missing or cannot
\* be read, an exception, or a check that returned an error dictionary
ErrorOccurred ==
    \/ request.kind \in {"file-missing", "file-unreadable", "dir-missing"}
    \/ request.kind = "content" /\ request.texts[1] = <<>>
    \/ exception # "none"
    \/ mode = "check" /\ "error" \in DOMAIN result
    \/ mode = "batch" /\ \E i \in 1..Len(results) : "error" \in DOMAIN results[i]

\* the verdict, or a verdict of the batch, is off-brand
OffBrandSeen ==
    \/ mode = "check" /\ Get(result, "status") = "off-brand"
    \/ mode = "batch" /\ \E i \in 1..Len(results) :
                            Get(results[i], "status") = "off-brand"

\* C12: the check and batch commands exit with 2 whenever an error occurred,
\* with 1 when no error occurred and a verdict is off-brand, and with 0 only
\* when no error occurred and nothing is off-brand.
C12_ExitCodes ==
    CommandDone =>
        exit_code = IF ErrorOccurred THEN 2 ELSE IF OffBrandSeen THEN 1 ELSE 0

(***************************************************************************)
(* C13                                                                     *)
(***************************************************************************)
\* C13: the handler answers a POST check request with the verdict and a 2xx
\* status when the check produced a verdict, and otherwise (also when the
\* check returned an error dictionary) with a non-2xx status and a body
\* {error: string}.
C13_ErrorsAreNot2xx ==
    (mode = "post" /\ pc = "done" /\ request.kind # "other-path") =>
        /\ DOMAIN response # {}
        /\ IF "status" \in DOMAIN result
           THEN response.status \in 200..299 /\ response.body = result
           ELSE /\ response.status \notin 200..299
                /\ DOMAIN response.body = {"error"}

(***************************************************************************)
(* C18                                                                     *)
(***************************************************************************)
\* two results come from the same profile snapshot
SameSnapshot(r1, r2) ==
    IF "error" \in DOMAIN r1
    THEN "error" \in DOMAIN r2 /\ r1.error = r2.error
    ELSE "profileVersion" \in DOMAIN r2 /\ r1.profileVersion = r2.profileVersion

\* C18: the results of one SimpleBrandChecker.check_batch call all carry the
\* same profileVersion, or are all the same error, also when the profile
\* file is replaced or deleted while the loop runs.
C18_OneSnapshot ==
    mode = "check_batch" =>
        \A i, j \in 1..Len(results) : SameSnapshot(results[i], results[j])

(***************************************************************************)
(* C14                                                                     *)
(***************************************************************************)
\* get_summary has returned
Summarized == mode = "get_summary" /\ pc = "done"

\* the positions (from 1) of the results with this status
WithStatus(st) ==
    {i \in 1..Len(results) :
        "status" \in DOMAIN results[i] /\ results[i].status = st}

\* |a|
Abs(a) == IF a < 0 THEN -a ELSE a

\* C14: for every list of results, total is its length; on_brand, borderline
\* and off_brand count the results with that status; health_score is 0 for
\* the empty list and otherwise a number of tenths nearest to
\* (on_brand*100 + borderline*50)/total, within 0..100; needs_attention
\* lists, ascending and from 0, the positions of exactly the off-brand
\* results.
C14_Summary ==
    Summarized =>
        LET n == Len(results)
            on == Cardinality(WithStatus("on-brand"))
            bl == Cardinality(WithStatus("borderline"))
            off == Cardinality(WithStatus("off-brand"))
            tenths == summary.health_score[1]
            na == summary.needs_attention
        IN  /\ summary.total = n
            /\ summary.on_brand = on
            /\ summary.borderline = bl
            /\ summary.off_brand = off
            /\ summary.health_score[2] = 10
            /\ tenths >= 0 /\ tenths <= 1000
            /\ n = 0 => tenths = 0
            /\ n > 0 => 2 * Abs(10 * (on * 100 + bl * 50) - tenths * n) <= n
            /\ Len(na) = off
            /\ \A k \in 1..Len(na) : na[k] + 1 \in WithStatus("off-brand")
            /\ \A k \in 1..(Len(na) - 1) : na[k] < na[k + 1]

\* eight results, one borderline and the others off-brand or failed: the
\* score 6.25 lies midway between two tenths and comes out as 6.2
C14_Witness ==
    /\ Summarized
    /\ summary.total = 8
    /\ summary.borderline = 1
    /\ summary.on_brand = 0
    /\ summary.off_brand >= 2
    /\ summary.off_brand < 7
    /\ summary.health_score = <<62, 10>>

(***************************************************************************)
(* C15                                                                     *)
(***************************************************************************)
\* calculate_word_overlap has returned
Compared == mode = "calculate_word_overlap" /\ pc = "done"

\* a = b for ratios with positive denominators
RatEQ(a, b) == a[1] * b[2] = b[1] * a[2]

One == <<1, 1>>

\* the text holds a character that belongs to a word
HasWord(text) == \E i \in 1..Len(text) : ~IsSeparator(text[i])

\* jaccard(a, b) = jaccard(b, a), and the value lies in [0, 1]
SymmetricInRange ==
    /\ RatEQ(overlap, calculate_word_overlap(text2, text1))
    /\ overlap[2] > 0
    /\ overlap[1] >= 0 /\ overlap[1] <= overlap[2]

\* C15 as stated: symmetric, within [0, 1], 1.0 for every non-empty text
\* compared with itself, 0.0 when the first text is empty.
C15_JaccardNonEmpty ==
    Compared =>
        /\ SymmetricInRange
        /\ (text1 = text2 /\ text1 # <<>>) => RatEQ(overlap, One)
        /\ text1 = <<>> => RatEQ(overlap, Zero)

\* C15 (amended): symmetric, within [0, 1], 0.0 when the first text is
\* empty; a text compared with itself gives 1.0 when it holds at least one
\* word and 0.0 when it holds none (only whitespace and punctuation).
C15_Jaccard ==
    Compared =>
        /\ SymmetricInRange
        /\ (text1 = text2 /\ HasWord(text1)) => RatEQ(overlap, One)
        /\ (text1 = text2 /\ ~HasWord(text1)) => RatEQ(overlap, Zero)
        /\ text1 = <<>> => RatEQ(overlap, Zero)

\* a text of two words compared with itself
C15_Witness ==
    /\ Compared
    /\ text1 = <<"a", " ", "b">>
    /\ text2 = text1
    /\ overlap = <<2, 2>>

(***************************************************************************)
(* C16                                                                     *)
(***************************************************************************)
\* a rule stage of _run is about to run
Evaluating ==
    pc \in {"never", "tone", "examples", "values", "positive", "voice",
            "acceptable", "ensure", "sort", "return"}

\* C16: every profile that reaches a rule stage has a non-empty name, a
\* version of the form digits.digits.digits, between 1 and 20 values, each
\* a non-empty string, and between 1 and 10 voice descriptors.
C16_AcceptedProfiles ==
    Evaluating =>
        /\ profile.name # <<>>
        /\ FullSemver(profile.version)
        /\ Len(profile.values) \in 1..20
        /\ \A i \in 1..Len(profile.values) : profile.values[i] # <<>>
        /\ Len(profile.voice_descriptors) \in 1..10

(***************************************************************************)
(* C17                                                                     *)
(***************************************************************************)
\* a never rule or an unacceptable tone is contained in the content, or the
\* content resembles a bad example by more than 0.5
OffBrandFinding ==
    \/ Hits(profile.never_rules) # {}
    \/ Hits(profile.tone_unacceptable) # {}
    \/ BadAbove05

\* C17: the status of a verdict is off-brand iff a never rule or an
\* unacceptable tone is contained in the content or the bad similarity
\* exceeds 0.5; it is on-brand iff none of these holds, the bad similarity
\* is at most 0.3 and the combined score is at least 0.5; it is borderline
\* in every other case.
C17_ClosedForm ==
    IsVerdict =>
        result.status =
            IF OffBrandFinding THEN "off-brand"
            ELSE IF ~BadAbove03 /\ C8_Twice >= C8_Den THEN "on-brand"
            ELSE "borderline"

\* a combined score of at least 0.5 and a bad similarity of exactly 0.5,
\* with no never rule and no unacceptable tone found: borderline
C17_Witness ==
    /\ IsVerdict
    /\ ~OffBrandFinding
    /\ C8_Twice >= C8_Den
    /\ result.details.exampleSimilarity.bad = <<1, 2>>
    /\ result.status = "borderline"

(***************************************************************************)
(* C19                                                                     *)
(***************************************************************************)
\* the explanations of the verdict that have this severity
OfSeverity(sev) ==
    {i \in 1..Len(result.explanations) : result.explanations[i].severity = sev}

\* C19: a verdict is off-brand iff one of its explanations is critical, and
\* iff its first explanation is critical; an on-brand verdict holds only
\* info explanations.
C19_CriticalIffOffBrand ==
    IsVerdict =>
        /\ Len(result.explanations) >= 1
        /\ result.status = "off-brand" <=> OfSeverity("critical") # {}
        /\ result.status = "off-brand" <=> 1 \in OfSeverity("critical")
        /\ result.status = "on-brand" =>
                OfSeverity("info") = 1..Len(result.explanations)

\* off-brand only through the resemblance to a bad example, found after a
\* warning-free start: the critical explanation leads the list
C19_Witness ==
    /\ IsVerdict
    /\ result.status = "off-brand"
    /\ never_violations = <<>>
    /\ unacceptable_found = <<>>
    /\ result.explanations[1].severity = "critical"
    /\ result.explanations[1].text.msg = Resembles

(***************************************************************************)
(* C20                                                                     *)
(***************************************************************************)
\* the list is in non-decreasing order of severity rank
InSeverityOrder(list) ==
    \A i \in 1..(Len(list) - 1) : SeverityRank(list[i]) <= SeverityRank(list[i + 1])

\* C20, the states: where the sort-and-truncate step runs, the list is in
\* severity order and holds at most 3 items; the tone stage and the example
\* stage are entered with fewer than 3 explanations; and the verdict holds
\* the explanation of every stage that was triggered (never rule, tone,
\* resemblance).
C20_State ==
    /\ pc = "sort" => Len(explanations) <= 3 /\ InSeverityOrder(explanations)
    /\ pc \in {"tone", "examples"} => Len(explanations) < 3
    /\ IsVerdict =>
        /\ Hits(profile.never_rules) # {} =>
              Has(result.explanations, "Contains prohibited content", "critical")
        /\ Hits(profile.tone_unacceptable) # {} =>
              Has(result.explanations, "Uses unacceptable tone", "critical")
        /\ BadAbove05 => Has(result.explanations, Resembles, "critical")
        /\ (BadAbove03 /\ ~BadAbove05) =>
              Has(result.explanations, Resembles, "warning")

\* C20, the step: sort-and-truncate returns the list unchanged.
C20_Step == pc = "sort" => explanations' = explanations

C20_SortIsIdentity == []C20_State /\ [][C20_Step]_vars

\* the sort runs on a full list of never rule, tone and resemblance, with
\* an acceptable tone found that the cap kept out
C20_Witness ==
    /\ pc = "sort"
    /\ Len(explanations) = 3
    /\ StageOf(explanations[1]) = 1
    /\ StageOf(explanations[2]) = 2
    /\ StageOf(explanations[3]) = 3
    /\ acceptable_found # <<>>

(***************************************************************************)
(* C21                                                                     *)
(***************************************************************************)
\* the list holds an entry that is empty or made of whitespace only
HasBlankEntry(list) ==
    \E i \in 1..Len(list) : \A k \in 1..Len(list[i]) : IsSpace(list[i][k])

\* the profile file passes validation and holds a blank never rule or a
\* blank unacceptable tone
BlankRuleFile ==
    /\ ValidFile
    /\ \/ HasBlankEntry(file.data.neverRules)
       \/ HasBlankEntry(file.data.toneUnacceptable)

\* the call of _run has ended, by a return or by an exception
Ended == pc \in {"returned", "raised"}

\* C21: a profile holding a never rule or an unacceptable tone that is
\* empty or whitespace only yields a verdict of status off-brand for every
\* content whatsoever.
C21_BlankEntryOffBrand ==
    (Ended /\ BlankRuleFile) => (IsVerdict /\ result.status = "off-brand")

====
